---- MODULE Spec2Model ----
(***************************************************************************)
(* Job lifecycle of api/tasks.py: the three huey tasks create_static_mix,  *)
(* create_dynamic_mix and fetch_youtube_audio, and the periodic task       *)
(* check_in_progress_tasks.                                                *)
(*                                                                         *)
(* A Django model instance handed to a task is an in-memory copy (mem) of  *)
(* a database row (db).  instance.save() first stores every file field     *)
(* that holds a not yet committed file in the storage backend and then     *)
(* writes ALL fields of the instance to the row.  QuerySet.update() is one *)
(* UPDATE ... WHERE statement on the rows.                                 *)
(***************************************************************************)
EXTENDS Integers, FiniteSets, Sequences, TLC

\* ------------------------------------------------------------ bounds
\* Largest value of the clock (minutes).
MaxTime == 4
\* settings.STALE_TASK_MIN_THRESHOLD (minutes).
STALE_TASK_MIN_THRESHOLD == 2
\* settings.YOUTUBE_MAX_RETRIES.
YOUTUBE_MAX_RETRIES == 2
\* Number of huey worker threads/processes executing tasks in parallel.
NumWorkers == 2

\* ------------------------------------------------------------ records
StaticMixes == {"s1"}
DynamicMixes == {"d1"}
FetchTasks == {"f1"}
Mixes == StaticMixes \cup DynamicMixes
Jobs == Mixes \cup FetchTasks

\* The sets of rows whose task the submission path has put on the queue; the
\* other rows stay as they were created.
JobSets == {{"s1", "d1"}, {"f1"}}

\* date_created of the rows (minutes); the clock starts at the latest.
created == [j \in Jobs |-> IF j \in DynamicMixes THEN 1 ELSE 0]

\* TaskStatus
PENDING == "Pending"
IN_PROGRESS == "InProgress"
DONE == "Done"
ERROR == "Error"
TaskStatus == {PENDING, IN_PROGRESS, DONE, ERROR}

\* Error texts (str(error)).  NoMsg is the empty error field.
\* A text is the sequence of its lines.
NoMsg == <<>>
TimedOutMsg == <<"Operation timed out">>
WriteMsg == <<"Error writing to file">>
NotFoundMsg == <<"No such file or directory">>
FailureMsg == <<"failure">>
Msgs == {TimedOutMsg, WriteMsg, NotFoundMsg, FailureMsg}

\* The line the separation tasks print after a FileNotFoundError.
InstallHint == "Please make sure you have FFmpeg and FFprobe installed."

\* The lines of a text.
Lines(msg) == {msg[i] : i \in DOMAIN msg}

\* The output files of save_to_ext_storage, in its order (without ".mp3").
filenames == <<"vocals", "other", "bass", "drums">>
Parts == {filenames[i] : i \in 1..Len(filenames)}

\* settings.SEPARATE_DIR and settings.UPLOAD_DIR.
SEPARATE_DIR == "separate"
UPLOAD_DIR == "uploads"

\* str(source_file.id): the primary keys of the two tables are independent,
\* a source file and its fetch task may or may not carry the same key.
SourceFileIds == {"f1", "u1"}

\* The file fields of a job: StaticMix.file; DynamicMix.vocals_file,
\* other_file, bass_file, drums_file; for a fetch task the file field of the
\* SourceFile that owns it.
Fields(j) == IF j \in DynamicMixes THEN Parts ELSE {"file"}

\* Order in which save() stores the file fields.
FieldSeq(j) == IF j \in DynamicMixes THEN filenames ELSE <<"file">>

VARIABLES
    is_local,       \* settings.DEFAULT_FILE_STORAGE is FileSystemStorage
    now,            \* timezone.now()
    db,             \* the rows: status, error, date_created, files (set references)
    mem,            \* the instance each task holds: status, error, files
    pc,             \* position of the task of each job
    fs,             \* files present in the job's working directory
    retries,        \* huey: retries left for the task of a job
    invocations,    \* calls of download_audio per fetch task
    attempt,        \* executions of the task started per job
    failed_early,   \* executions of a fetch task that failed before download_audio
    produced,       \* the files the separation operation wrote, per mix
    reaper,         \* position of check_in_progress_tasks
    time_threshold, \* its local variable (0 while it does not run)
    stdout,         \* lines the task of each job printed
    dirs,           \* directories present under MEDIA_ROOT
    remote,         \* files of each job stored in the external storage
    source_file_id  \* str(source_file.id) of the source file of the fetch task

vars == <<is_local, now, db, mem, pc, fs, retries, invocations, attempt,
          failed_early, produced, reaper, time_threshold, stdout, dirs, remote,
          source_file_id>>

\* A file field of an instance: no file, a ContentFile assigned but not yet
\* stored (FieldFile._committed = False), or a stored file name.
UNSET == "unset"
UNCOMMITTED == "uncommitted"
COMMITTED == "committed"

\* The name of a file field without a file.
NoName == <<>>

\* Paths relative to MEDIA_ROOT are sequences of their components.
\* directory / rel_path_dir / rel_dir_path: the directory a task creates
\* and, with external storage, removes.
directory(j) ==
    IF j \in Mixes THEN <<SEPARATE_DIR, j>> ELSE <<UPLOAD_DIR, source_file_id>>

\* rel_media_path: the path of output file f of job j.
rel_media_path(j, f) ==
    IF j \in Mixes THEN <<SEPARATE_DIR, j, f>> ELSE <<UPLOAD_DIR, j, f>>

\* os.path.dirname
dirname(path) == SubSeq(path, 1, Len(path) - 1)

\* The name the storage backend gives the stored ContentFile of field f.
StoredName(j, f) == <<"storage", j, f>>

\* Every directory of the model.
Directories ==
    {<<SEPARATE_DIR, j>> : j \in Mixes}
        \cup {<<UPLOAD_DIR, i>> : i \in FetchTasks \cup SourceFileIds}

\* Positions of a task.
Running == {"run", "check", "ext", "rmdir", "save_done", "save_source", "save_error"}
Ended == {"returned", "raised", "crashed"}

\* Tasks in execution, the reaper included.
Busy == Cardinality({j \in Jobs : pc[j] \in Running}) + (IF reaper = "idle" THEN 0 ELSE 1)

TypeOK ==
    /\ is_local \in BOOLEAN
    /\ now \in 0..MaxTime
    /\ \A j \in Jobs :
        /\ db[j].status \in TaskStatus
        /\ db[j].error \in Msgs \cup {NoMsg}
        /\ db[j].files \subseteq Fields(j)
        /\ mem[j].status \in TaskStatus
        /\ mem[j].error \in Msgs \cup {NoMsg}
        /\ pc[j] \in {"none", "queued"} \cup Running \cup Ended
        /\ fs[j] \subseteq Fields(j)
        /\ stdout[j] \subseteq UNION {Lines(m) : m \in Msgs} \cup {InstallHint}
        /\ remote[j] \subseteq Fields(j)
        /\ \A f \in Fields(j) :
              /\ mem[j].names[f] \in {NoName, rel_media_path(j, f), StoredName(j, f)}
              /\ db[j].names[f] \in {NoName, rel_media_path(j, f), StoredName(j, f)}
    /\ dirs \subseteq Directories
    /\ source_file_id \in SourceFileIds

Init ==
    /\ is_local \in BOOLEAN
    /\ now = 1
    /\ db = [j \in Jobs |-> [status |-> PENDING, error |-> NoMsg,
                             date_created |-> created[j], files |-> {},
                             names |-> [f \in Fields(j) |-> NoName]]]
    /\ mem = [j \in Jobs |-> [status |-> PENDING, error |-> NoMsg,
                              files |-> [f \in Fields(j) |-> UNSET],
                              names |-> [f \in Fields(j) |-> NoName]]]
    /\ \E enqueued \in JobSets :
         /\ pc = [j \in Jobs |-> IF j \in enqueued THEN "queued" ELSE "none"]
         /\ source_file_id \in
               IF enqueued \cap FetchTasks = {} THEN {"u1"} ELSE SourceFileIds
    /\ stdout = [j \in Jobs |-> {}]
    /\ dirs = {}
    /\ remote = [j \in Jobs |-> {}]
    /\ fs = [j \in Jobs |-> {}]
    /\ retries = [j \in Jobs |-> IF j \in FetchTasks THEN YOUTUBE_MAX_RETRIES ELSE 0]
    /\ invocations = [j \in FetchTasks |-> 0]
    /\ attempt = [j \in Jobs |-> 0]
    /\ failed_early = [j \in FetchTasks |-> 0]
    /\ produced = [j \in Mixes |-> {}]
    /\ reaper = "idle"
    /\ time_threshold = 0

\* ------------------------------------------------------------ Model.save()
\* Positions in FieldSeq(j) of the file fields save() still has to store.
Uncommitted(j) == {k \in 1..Len(FieldSeq(j)) : mem[j].files[FieldSeq(j)[k]] = UNCOMMITTED}

\* The file fields after save() stored all of them.
StoreAll(j) ==
    [f \in Fields(j) |-> IF mem[j].files[f] = UNCOMMITTED THEN COMMITTED ELSE mem[j].files[f]]

\* The file fields after storing the field at position k failed: the fields
\* before it are stored, the field itself and the later ones are not.
StoreBefore(j, k) ==
    [f \in Fields(j) |->
        IF mem[j].files[f] = UNCOMMITTED
           /\ \E i \in 1..(k - 1) : FieldSeq(j)[i] = f
        THEN COMMITTED ELSE mem[j].files[f]]

\* The file fields save() stores when it leaves the fields as in files.
Uploaded(j, files) ==
    {f \in Fields(j) : mem[j].files[f] = UNCOMMITTED /\ files[f] = COMMITTED}

\* The names of the file fields after that: a stored field carries the name
\* the storage returned.
NamesAfter(j, files) ==
    [f \in Fields(j) |->
        IF f \in Uploaded(j, files) THEN StoredName(j, f) ELSE mem[j].names[f]]

\* The row save() writes for instance m: every field of the instance.
Row(j, m) ==
    [status |-> m.status, error |-> m.error, date_created |-> db[j].date_created,
     files |-> {f \in Fields(j) : m.files[f] = COMMITTED},
     names |-> [f \in Fields(j) |->
                  IF m.files[f] = COMMITTED THEN m.names[f] ELSE NoName]]

\* print(error), and for a FileNotFoundError in a separation task the hint.
Printed(j, msg) ==
    Lines(msg) \cup (IF j \in Mixes /\ msg = NotFoundMsg THEN {InstallHint} ELSE {})

\* The except clauses: print, status = ERROR, error = str(error); save()
\* follows.
Handler(j, msg) ==
    /\ stdout' = [stdout EXCEPT ![j] = @ \cup Printed(j, msg)]
    /\ mem' = [mem EXCEPT ![j].status = ERROR, ![j].error = msg]
    /\ pc' = [pc EXCEPT ![j] = "save_error"]

\* ------------------------------------------------------------ separation tasks
\* Lines 42-43 / 111-112: mark as in progress and save.
MixBegin(j) ==
    /\ pc[j] = "queued"
    /\ Busy < NumWorkers
    /\ mem' = [mem EXCEPT ![j].status = IN_PROGRESS]
    /\ db' = [db EXCEPT ![j] = Row(j, mem'[j])]
    /\ pc' = [pc EXCEPT ![j] = "run"]
    /\ attempt' = [attempt EXCEPT ![j] = @ + 1]
    /\ UNCHANGED <<is_local, now, fs, retries, invocations, failed_early, produced,
                   reaper, time_threshold, stdout, dirs, remote,
                   source_file_id>>

\* Lines 46-69 / 115-132: mkdir and the separation operation.  A failure
\* comes before or after the directory was made and is a FileNotFoundError
\* (a binary is missing) or something else; otherwise the operation returns
\* having written any subset of the expected files.
MixSeparate(j) ==
    /\ pc[j] = "run"
    /\ \/ /\ \E msg \in {NotFoundMsg, FailureMsg} : Handler(j, msg)
          /\ \E made \in BOOLEAN :
                dirs' = IF made THEN dirs \cup {directory(j)} ELSE dirs
          /\ UNCHANGED <<fs, produced>>
       \/ /\ \E written \in SUBSET Fields(j) :
                /\ fs' = [fs EXCEPT ![j] = written]
                /\ produced' = [produced EXCEPT ![j] = written]
          /\ dirs' = dirs \cup {directory(j)}
          /\ pc' = [pc EXCEPT ![j] = "check"]
          /\ UNCHANGED <<mem, stdout>>
    /\ UNCHANGED <<is_local, now, db, retries, invocations, attempt, failed_early,
                   reaper, time_threshold, remote, source_file_id>>

\* A check that is content with the first file.
exists_first_part(j) == FieldSeq(j)[1] \in fs[j]

\* exists_all_parts (lines 221-229); os.path.exists(rel_path) for a single file.
exists_all_parts(j) == \A f \in Fields(j) : f \in fs[j]

\* A check that takes the way of the external storage whatever the backend.
MixCheckExt(j) ==
    /\ pc[j] = "check"
    /\ IF exists_all_parts(j)
       THEN /\ mem' = [mem EXCEPT ![j].status = DONE]
            /\ pc' = [pc EXCEPT ![j] = "ext"]
            /\ UNCHANGED stdout
       ELSE Handler(j, WriteMsg)
    /\ UNCHANGED <<is_local, now, db, fs, retries, invocations, attempt, failed_early,
                   produced, reaper, time_threshold, dirs, remote, source_file_id>>

\* Lines 72-76, 88-89 / 135-142, 146-147: check the files exist; with local
\* storage record the relative paths.
MixCheck(j) ==
    /\ pc[j] = "check"
    /\ IF exists_all_parts(j)
       THEN /\ IF is_local
               THEN /\ mem' = [mem EXCEPT
                                 ![j].status = DONE,
                                 ![j].files = [f \in Fields(j) |-> COMMITTED],
                                 ![j].names = [f \in Fields(j) |-> rel_media_path(j, f)]]
                    /\ pc' = [pc EXCEPT ![j] = "save_done"]
               ELSE /\ mem' = [mem EXCEPT ![j].status = DONE]
                    /\ pc' = [pc EXCEPT ![j] = "ext"]
            /\ UNCHANGED stdout
       ELSE Handler(j, WriteMsg)
    /\ UNCHANGED <<is_local, now, db, fs, retries, invocations, attempt, failed_early,
                   produced, reaper, time_threshold, dirs, remote, source_file_id>>

\* The next file of the loop of save_to_ext_storage: the fields are assigned
\* in the order of filenames.
NextField(j) ==
    FieldSeq(j)[Cardinality({f \in Fields(j) : mem[j].files[f] # UNSET}) + 1]

\* Lines 79-84 / 238-254: one file copied to external storage: read it, assign
\* the ContentFile to the field, remove the local file.  Reading may fail.
MixExt(j) ==
    /\ pc[j] = "ext"
    /\ \/ /\ \E msg \in {NotFoundMsg, FailureMsg} : Handler(j, msg)
          /\ UNCHANGED fs
       \/ /\ mem' = [mem EXCEPT ![j].files[NextField(j)] = UNCOMMITTED]
          /\ fs' = [fs EXCEPT ![j] = @ \ {NextField(j)}]
          /\ pc' = [pc EXCEPT ![j] =
                       IF \A f \in Fields(j) : mem'[j].files[f] # UNSET
                       THEN "rmdir" ELSE "ext"]
          /\ UNCHANGED stdout
    /\ UNCHANGED <<is_local, now, db, retries, invocations, attempt, failed_early,
                   produced, reaper, time_threshold, dirs, remote, source_file_id>>

\* A task that leaves the working directory in place.
MixRmdirSkip(j) ==
    /\ pc[j] = "rmdir"
    /\ pc' = [pc EXCEPT ![j] = "save_done"]
    /\ UNCHANGED <<is_local, now, db, mem, fs, retries, invocations, attempt,
                   failed_early, produced, reaper, time_threshold, stdout, dirs,
                   remote, source_file_id>>

\* Lines 85-86 / 255-256: os.rmdir of the working directory, which removes a
\* directory that exists and is empty and may fail.
MixRmdir(j) ==
    /\ pc[j] = "rmdir"
    /\ \/ /\ \E msg \in {NotFoundMsg, FailureMsg} : Handler(j, msg)
          /\ UNCHANGED dirs
       \/ /\ directory(j) \in dirs
          /\ fs[j] = {}
          /\ dirs' = dirs \ {directory(j)}
          /\ pc' = [pc EXCEPT ![j] = "save_done"]
          /\ UNCHANGED <<mem, stdout>>
    /\ UNCHANGED <<is_local, now, db, fs, retries, invocations, attempt, failed_early,
                   produced, reaper, time_threshold, remote, source_file_id>>

\* Lines 87 / 145: save() with status DONE stores the uncommitted files and
\* writes the row.  Storing a file may fail, and the except clause takes over.
MixSaveDone(j) ==
    /\ pc[j] = "save_done"
    /\ \/ /\ mem' = [mem EXCEPT ![j].files = StoreAll(j),
                                ![j].names = NamesAfter(j, StoreAll(j))]
          /\ remote' = [remote EXCEPT ![j] = @ \cup Uploaded(j, StoreAll(j))]
          /\ db' = [db EXCEPT ![j] = Row(j, mem'[j])]
          /\ pc' = [pc EXCEPT ![j] = "returned"]
          /\ UNCHANGED stdout
       \/ /\ \E k \in Uncommitted(j) :
                /\ mem' = [mem EXCEPT ![j].files = StoreBefore(j, k),
                                      ![j].names = NamesAfter(j, StoreBefore(j, k)),
                                      ![j].status = ERROR, ![j].error = FailureMsg]
                /\ remote' = [remote EXCEPT ![j] = @ \cup Uploaded(j, StoreBefore(j, k))]
          /\ stdout' = [stdout EXCEPT ![j] = @ \cup Printed(j, FailureMsg)]
          /\ pc' = [pc EXCEPT ![j] = "save_error"]
          /\ UNCHANGED db
    /\ UNCHANGED <<is_local, now, fs, retries, invocations, attempt, failed_early,
                   produced, reaper, time_threshold, dirs, source_file_id>>

\* Lines 90-100 / 148-158: save() in the except clause.  When storing a file
\* fails here the exception leaves the task.
MixSaveError(j) ==
    /\ pc[j] = "save_error"
    /\ \/ /\ mem' = [mem EXCEPT ![j].files = StoreAll(j),
                                ![j].names = NamesAfter(j, StoreAll(j))]
          /\ remote' = [remote EXCEPT ![j] = @ \cup Uploaded(j, StoreAll(j))]
          /\ db' = [db EXCEPT ![j] = Row(j, mem'[j])]
          /\ pc' = [pc EXCEPT ![j] = "returned"]
       \/ /\ \E k \in Uncommitted(j) :
                /\ mem' = [mem EXCEPT ![j].files = StoreBefore(j, k),
                                      ![j].names = NamesAfter(j, StoreBefore(j, k))]
                /\ remote' = [remote EXCEPT ![j] = @ \cup Uploaded(j, StoreBefore(j, k))]
          /\ pc' = [pc EXCEPT ![j] = "raised"]
          /\ UNCHANGED db
    /\ UNCHANGED <<is_local, now, fs, retries, invocations, attempt, failed_early,
                   produced, reaper, time_threshold, stdout, dirs, source_file_id>>

create_static_mix ==
    \E j \in StaticMixes :
        \/ MixBegin(j) \/ MixSeparate(j) \/ MixCheck(j) \/ MixExt(j)
        \/ MixRmdir(j) \/ MixSaveDone(j) \/ MixSaveError(j)

create_dynamic_mix ==
    \E j \in DynamicMixes :
        \/ MixBegin(j) \/ MixSeparate(j) \/ MixCheck(j) \/ MixExt(j)
        \/ MixRmdir(j) \/ MixSaveDone(j) \/ MixSaveError(j)

\* ------------------------------------------------------------ fetch task
\* fetch_task.save(): the row of the fetch task holds status and error; the
\* file reference belongs to the SourceFile row and is written by
\* source_file.save() alone.
TaskRow(j, m) == [db[j] EXCEPT !.status = m.status, !.error = m.error]

\* Lines 170-173: mark as in progress and save.  A retry runs the task again
\* with the same instances.
FetchBegin(j) ==
    /\ pc[j] = "queued"
    /\ Busy < NumWorkers
    /\ mem' = [mem EXCEPT ![j].status = IN_PROGRESS]
    /\ db' = [db EXCEPT ![j] = TaskRow(j, mem'[j])]
    /\ pc' = [pc EXCEPT ![j] = "run"]
    /\ attempt' = [attempt EXCEPT ![j] = @ + 1]
    /\ UNCHANGED <<is_local, now, fs, retries, invocations, failed_early, produced,
                   reaper, time_threshold, stdout, dirs, remote,
                   source_file_id>>

\* Lines 177-187: the paths and the directory (any of which may raise), then
\* download_audio, which raises or returns with or without the file written
\* at rel_path; a written file stands in the directory of its path.
FetchDownload(j) ==
    /\ pc[j] = "run"
    /\ \/ /\ Handler(j, FailureMsg)
          /\ failed_early' = [failed_early EXCEPT ![j] = @ + 1]
          /\ \E made \in BOOLEAN :
                dirs' = IF made THEN dirs \cup {directory(j)} ELSE dirs
          /\ UNCHANGED <<fs, invocations>>
       \/ /\ invocations' = [invocations EXCEPT ![j] = @ + 1]
          /\ UNCHANGED failed_early
          /\ \/ /\ Handler(j, FailureMsg)
                /\ dirs' = dirs \cup {directory(j)}
                /\ UNCHANGED fs
             \/ /\ \E written \in SUBSET Fields(j) :
                      fs' = [fs EXCEPT ![j] = @ \cup written]
                /\ dirs' = dirs \cup {directory(j)} \cup
                              {dirname(rel_media_path(j, f)) : f \in fs'[j]}
                /\ pc' = [pc EXCEPT ![j] = "check"]
                /\ UNCHANGED <<mem, stdout>>
    /\ UNCHANGED <<is_local, now, db, retries, attempt, produced, reaper,
                   time_threshold, remote, source_file_id>>

\* Lines 192-196, 212-213: check the file exists; with local storage record
\* the relative path on the source file.
FetchCheck(j) ==
    /\ pc[j] = "check"
    /\ IF exists_all_parts(j)
       THEN /\ IF is_local
               THEN /\ mem' = [mem EXCEPT
                                 ![j].status = DONE,
                                 ![j].files["file"] = COMMITTED,
                                 ![j].names["file"] = rel_media_path(j, "file")]
                    /\ pc' = [pc EXCEPT ![j] = "save_done"]
               ELSE /\ mem' = [mem EXCEPT ![j].status = DONE]
                    /\ pc' = [pc EXCEPT ![j] = "ext"]
            /\ UNCHANGED stdout
       ELSE Handler(j, WriteMsg)
    /\ UNCHANGED <<is_local, now, db, fs, retries, invocations, attempt, failed_early,
                   produced, reaper, time_threshold, dirs, remote, source_file_id>>

\* Lines 199-207: read the file (which may fail), assign the ContentFile to
\* source_file.file, remove the local file.
FetchExt(j) ==
    /\ pc[j] = "ext"
    /\ \/ /\ Handler(j, FailureMsg)
          /\ UNCHANGED fs
       \/ /\ mem' = [mem EXCEPT ![j].files["file"] = UNCOMMITTED]
          /\ fs' = [fs EXCEPT ![j] = @ \ {"file"}]
          /\ pc' = [pc EXCEPT ![j] = "rmdir"]
          /\ UNCHANGED stdout
    /\ UNCHANGED <<is_local, now, db, retries, invocations, attempt, failed_early,
                   produced, reaper, time_threshold, dirs, remote, source_file_id>>

\* Lines 203-205, 208-209: os.rmdir of rel_dir_path, which removes a
\* directory that exists and is empty and may fail.
FetchRmdir(j) ==
    /\ pc[j] = "rmdir"
    /\ \/ /\ Handler(j, FailureMsg)
          /\ UNCHANGED dirs
       \/ /\ directory(j) \in dirs
          /\ \A f \in fs[j] : dirname(rel_media_path(j, f)) # directory(j)
          /\ dirs' = dirs \ {directory(j)}
          /\ pc' = [pc EXCEPT ![j] = "save_done"]
          /\ UNCHANGED <<mem, stdout>>
    /\ UNCHANGED <<is_local, now, db, fs, retries, invocations, attempt, failed_early,
                   produced, reaper, time_threshold, remote, source_file_id>>

\* Line 210: fetch_task.save() with status DONE.
FetchSaveTask(j) ==
    /\ pc[j] = "save_done"
    /\ db' = [db EXCEPT ![j] = TaskRow(j, mem[j])]
    /\ pc' = [pc EXCEPT ![j] = "save_source"]
    /\ UNCHANGED <<is_local, now, mem, fs, retries, invocations, attempt, failed_early,
                   produced, reaper, time_threshold, stdout, dirs, remote,
                   source_file_id>>

\* A task that returns without source_file.save().
FetchSkipSaveSource(j) ==
    /\ pc[j] = "save_source"
    /\ pc' = [pc EXCEPT ![j] = "returned"]
    /\ UNCHANGED <<is_local, now, db, mem, fs, retries, invocations, attempt,
                   failed_early, produced, reaper, time_threshold, stdout, dirs, remote,
                   source_file_id>>

\* Line 211: source_file.save() stores the uncommitted file and writes the
\* file reference.  Storing the file may fail, and the except clause takes
\* over.
FetchSaveSource(j) ==
    /\ pc[j] = "save_source"
    /\ \/ /\ mem' = [mem EXCEPT ![j].files = StoreAll(j),
                                ![j].names = NamesAfter(j, StoreAll(j))]
          /\ remote' = [remote EXCEPT ![j] = @ \cup Uploaded(j, StoreAll(j))]
          /\ db' = [db EXCEPT ![j].files = Row(j, mem'[j]).files,
                              ![j].names = Row(j, mem'[j]).names]
          /\ pc' = [pc EXCEPT ![j] = "returned"]
          /\ UNCHANGED stdout
       \/ /\ Uncommitted(j) # {}
          /\ Handler(j, FailureMsg)
          /\ UNCHANGED <<db, remote>>
    /\ UNCHANGED <<is_local, now, fs, retries, invocations, attempt, failed_early,
                   produced, reaper, time_threshold, dirs, source_file_id>>

\* A retry granted once more than the retries left.
FetchSaveErrorOneMore(j) ==
    /\ pc[j] = "save_error"
    /\ db' = [db EXCEPT ![j] = TaskRow(j, mem[j])]
    /\ IF retries[j] >= 0
       THEN /\ retries' = [retries EXCEPT ![j] = @ - 1]
            /\ pc' = [pc EXCEPT ![j] = "queued"]
       ELSE /\ pc' = [pc EXCEPT ![j] = "raised"]
            /\ UNCHANGED retries
    /\ UNCHANGED <<is_local, now, mem, fs, invocations, attempt, failed_early,
                   produced, reaper, time_threshold, stdout, dirs, remote,
                   source_file_id>>

\* An except clause that saves Error and returns.
FetchSaveErrorSwallow(j) ==
    /\ pc[j] = "save_error"
    /\ db' = [db EXCEPT ![j] = TaskRow(j, mem[j])]
    /\ pc' = [pc EXCEPT ![j] = "returned"]
    /\ UNCHANGED <<is_local, now, mem, fs, retries, invocations, attempt, failed_early,
                   produced, reaper, time_threshold, stdout, dirs, remote,
                   source_file_id>>

\* An except clause that saves Error only when no retry is left.
FetchSaveErrorLastOnly(j) ==
    /\ pc[j] = "save_error"
    /\ IF retries[j] > 0
       THEN /\ retries' = [retries EXCEPT ![j] = @ - 1]
            /\ pc' = [pc EXCEPT ![j] = "queued"]
            /\ UNCHANGED db
       ELSE /\ pc' = [pc EXCEPT ![j] = "raised"]
            /\ db' = [db EXCEPT ![j] = TaskRow(j, mem[j])]
            /\ UNCHANGED retries
    /\ UNCHANGED <<is_local, now, mem, fs, invocations, attempt, failed_early,
                   produced, reaper, time_threshold, stdout, dirs, remote,
                   source_file_id>>

\* Lines 160, 214-219: fetch_task.save() in the except clause, then raise.
\* huey runs a task that raised again while it has retries left.
FetchSaveError(j) ==
    /\ pc[j] = "save_error"
    /\ db' = [db EXCEPT ![j] = TaskRow(j, mem[j])]
    /\ IF retries[j] > 0
       THEN /\ retries' = [retries EXCEPT ![j] = @ - 1]
            /\ pc' = [pc EXCEPT ![j] = "queued"]
       ELSE /\ pc' = [pc EXCEPT ![j] = "raised"]
            /\ UNCHANGED retries
    /\ UNCHANGED <<is_local, now, mem, fs, invocations, attempt, failed_early,
                   produced, reaper, time_threshold, stdout, dirs, remote,
                   source_file_id>>

fetch_youtube_audio ==
    \E j \in FetchTasks :
        \/ FetchBegin(j) \/ FetchDownload(j) \/ FetchCheck(j) \/ FetchExt(j)
        \/ FetchRmdir(j) \/ FetchSaveTask(j) \/ FetchSaveSource(j) \/ FetchSaveError(j)

\* ------------------------------------------------------------ stale tasks
\* A filter on the creation time alone.
StaleAnyStatus(j) == db[j].date_created <= time_threshold

\* Rows an UPDATE of the filtered queryset changes.
Stale(j) == db[j].status = IN_PROGRESS /\ db[j].date_created <= time_threshold

\* QuerySet.update(status=ERROR, error='Operation timed out') on the rows of
\* table that pass the filter: one UPDATE ... WHERE statement.
UpdateStale(table) ==
    [j \in Jobs |->
        IF j \in table /\ Stale(j)
        THEN [db[j] EXCEPT !.status = ERROR, !.error = TimedOutMsg]
        ELSE db[j]]

\* A sweep whose threshold is the current time.
ReaperStartNow ==
    /\ reaper = "idle"
    /\ Busy < NumWorkers
    /\ time_threshold' = now
    /\ reaper' = "static"
    /\ UNCHANGED <<is_local, now, db, mem, pc, fs, retries, invocations, attempt,
                   failed_early, produced, stdout, dirs, remote,
                   source_file_id>>

\* Lines 22-23: the time threshold.
ReaperStart ==
    /\ reaper = "idle"
    /\ Busy < NumWorkers
    /\ time_threshold' = now - STALE_TASK_MIN_THRESHOLD
    /\ reaper' = "static"
    /\ UNCHANGED <<is_local, now, db, mem, pc, fs, retries, invocations, attempt,
                   failed_early, produced, stdout, dirs, remote,
                   source_file_id>>

\* Lines 24-25, 28-29: the UPDATE of the static mixes.
ReaperStatic ==
    /\ reaper = "static"
    /\ db' = UpdateStale(StaticMixes)
    /\ reaper' = "dynamic"
    /\ UNCHANGED <<is_local, now, mem, pc, fs, retries, invocations, attempt,
                   failed_early, produced, time_threshold, stdout, dirs, remote,
                   source_file_id>>

\* Lines 26-27, 30-31: the UPDATE of the dynamic mixes.
ReaperDynamic ==
    /\ reaper = "dynamic"
    /\ db' = UpdateStale(DynamicMixes)
    /\ reaper' = "idle"
    /\ time_threshold' = 0
    /\ UNCHANGED <<is_local, now, mem, pc, fs, retries, invocations, attempt,
                   failed_early, produced, stdout, dirs, remote,
                   source_file_id>>

check_in_progress_tasks == ReaperStart \/ ReaperStatic \/ ReaperDynamic

\* ------------------------------------------------------------ environment
\* A minute passes.
Tick ==
    /\ now < MaxTime
    /\ now' = now + 1
    /\ UNCHANGED <<is_local, db, mem, pc, fs, retries, invocations, attempt,
                   failed_early, produced, reaper, time_threshold, stdout, dirs, remote,
                   source_file_id>>

\* The worker executing the task of j dies.
Crash ==
    \E j \in Jobs :
        /\ pc[j] \in Running
        /\ pc' = [pc EXCEPT ![j] = "crashed"]
        /\ UNCHANGED <<is_local, now, db, mem, fs, retries, invocations, attempt,
                       failed_early, produced, reaper, time_threshold, stdout, dirs, remote,
                       source_file_id>>

Next ==
    \/ create_static_mix
    \/ create_dynamic_mix
    \/ fetch_youtube_audio
    \/ check_in_progress_tasks
    \/ Tick
    \/ Crash

Spec == Init /\ [][Next]_vars

\* ------------------------------------------------------------ properties
Terminal == {DONE, ERROR}

\* The transitions of the job state machine.
Transitions == {<<PENDING, IN_PROGRESS>>, <<IN_PROGRESS, DONE>>, <<IN_PROGRESS, ERROR>>}

\* C1: the durable status of every job is one of the four values, changes
\* only along Pending -> InProgress -> {Done, Error}, and never changes once
\* it is Done or Error.
C1_StatusMonotonic ==
    [][\A j \in Jobs :
          /\ db'[j].status \in TaskStatus
          /\ db'[j].status # db[j].status
                => <<db[j].status, db'[j].status>> \in Transitions]_vars

\* C2: in every durable state a Done job has every expected output reference
\* set and an Error job has none.
C2_OutputsIffDone ==
    \A j \in Jobs :
        /\ db[j].status = DONE => db[j].files = Fields(j)
        /\ db[j].status = ERROR => db[j].files = {}

\* C3: in every durable state the error message is set if and only if the
\* status is Error.
C3_ErrorIffError ==
    \A j \in Jobs : db[j].error # NoMsg <=> db[j].status = ERROR

\* C4: a dynamic mix is Done only if the separation wrote all four files, and
\* then all four references are set; when a file is missing the task ends
\* with the job in Error and no file attached.
C4_AllOrNothing ==
    \A j \in DynamicMixes :
        /\ db[j].status = DONE => produced[j] = Parts /\ db[j].files = Parts
        /\ produced[j] # Parts => db[j].files = {}
        /\ produced[j] # Parts /\ pc[j] \in {"returned", "raised"}
              => db[j].status = ERROR /\ db[j].error # NoMsg

\* Three of the four files were written and the task has ended.
C4_Witness ==
    \E j \in DynamicMixes :
        /\ Cardinality(produced[j]) = 3
        /\ pc[j] = "returned"
        /\ db[j].status = ERROR

\* A statement of the sweep is executed: the UPDATE of the static mixes
\* (reaper = "static") or of the dynamic mixes (reaper = "dynamic").
SweepUpdate == reaper # "idle" /\ reaper' # reaper

\* The table the statement about to be executed updates.
SweptTable == IF reaper = "static" THEN StaticMixes ELSE DynamicMixes

\* C5: a sweep started at time t sets status Error and the timed-out message
\* on exactly the static and dynamic mixes that are InProgress and were
\* created at or before t - threshold; every other row, and every other
\* field, is left as it was.
C5_SweepFrame ==
    [][/\ reaper = "idle" /\ reaper' # "idle"
            => time_threshold' = now - STALE_TASK_MIN_THRESHOLD
       /\ SweepUpdate =>
            \A j \in Jobs :
                IF /\ j \in SweptTable
                   /\ db[j].status = IN_PROGRESS
                   /\ db[j].date_created <= time_threshold
                THEN db'[j] = [db[j] EXCEPT !.status = ERROR, !.error = TimedOutMsg]
                ELSE db'[j] = db[j]]_vars

\* The UPDATE of the static mixes has timed out the stale static mix, and the
\* dynamic mix, InProgress but created after the threshold, is next.
C5_Witness ==
    /\ reaper = "dynamic"
    /\ \E j \in StaticMixes : db[j].status = ERROR /\ db[j].error = TimedOutMsg
    /\ \E j \in DynamicMixes :
          db[j].status = IN_PROGRESS /\ db[j].date_created > time_threshold

\* C6: every job of every kind that is InProgress and older than the
\* threshold is set to Error with the timed-out message by the sweep: a static
\* mix by its UPDATE, every other job by the end of the sweep.
C6_SweepCoversAllKinds ==
    [][SweepUpdate =>
          \A j \in Jobs :
              /\ Stale(j)
              /\ (j \in StaticMixes <=> reaper = "static")
              => db'[j].status = ERROR /\ db'[j].error = TimedOutMsg]_vars

\* C7: every job that is InProgress eventually is Done or Error.
C7_EventuallyTerminal ==
    \A j \in Jobs : db[j].status = IN_PROGRESS ~> db[j].status \in Terminal

\* C7 for the separation tasks alone.
MixesEventuallyTerminal ==
    \A j \in Mixes : db[j].status = IN_PROGRESS ~> db[j].status \in Terminal

\* C8: an UPDATE of the sweep leaves every row alone that is Done or Error
\* when the UPDATE is applied.
C8_SweepSkipsTerminal ==
    [][SweepUpdate => \A j \in Jobs : db[j].status \in Terminal => db'[j] = db[j]]_vars

\* The UPDATE of the static mixes is about to be applied to a static mix old
\* enough to be selected whose task has saved Done.
C8_Witness ==
    /\ reaper = "static"
    /\ \E j \in StaticMixes :
          /\ db[j].status = DONE
          /\ db[j].date_created <= time_threshold
          /\ pc[j] = "returned"

C10_AtMostMaxRetries ==
    \A j \in FetchTasks : invocations[j] <= YOUTUBE_MAX_RETRIES

\* C10 amended: download_audio is called at most YOUTUBE_MAX_RETRIES + 1
\* times for one fetch task; an execution starts only from the queue, and a
\* retry only after the execution before it saved Error; when the last one
\* fails too the task ends with the job in Error.
C10_BoundedRetries ==
    /\ [](\A j \in FetchTasks :
            /\ invocations[j] <= YOUTUBE_MAX_RETRIES + 1
            /\ attempt[j] <= YOUTUBE_MAX_RETRIES + 1
            /\ pc[j] = "raised" => db[j].status = ERROR /\ retries[j] = 0)
    /\ [][\A j \in FetchTasks :
            attempt'[j] # attempt[j]
                => /\ attempt'[j] = attempt[j] + 1
                   /\ pc[j] = "queued"
                   /\ attempt[j] > 0 => db[j].status = ERROR]_vars

\* Every execution failed in the download and the retries are used up.
C10_Witness ==
    \E j \in FetchTasks :
        /\ pc[j] = "raised"
        /\ invocations[j] = YOUTUBE_MAX_RETRIES + 1
        /\ db[j].status = ERROR

\* C11: a fetch execution that failed after the job was marked InProgress
\* has, once its except clause is through, saved Error with the message of
\* the failure and raised it again (huey queues the retry or gives up); an
\* execution returns only when nothing failed.
C11_FailureSavedAndRaised ==
    \A j \in FetchTasks :
        /\ mem[j].status = ERROR /\ pc[j] \notin {"save_error", "crashed"}
              => /\ pc[j] \in {"queued", "raised"}
                 /\ db[j].status = ERROR
                 /\ db[j].error = mem[j].error
                 /\ db[j].error # NoMsg
        /\ pc[j] = "returned" => mem[j].status = DONE

\* The download returned without the file; the execution saved Error with
\* that message and raised.
C11_Witness ==
    \E j \in FetchTasks :
        /\ pc[j] \in {"queued", "raised"}
        /\ db[j].status = ERROR
        /\ db[j].error = WriteMsg

\* C12: the fetch task is never durably Done while the source file has no
\* file reference, and a fetch task saved as Done is not changed afterwards.
C12_OneCommitStep ==
    /\ [](\A j \in FetchTasks : db[j].status = DONE => db[j].files = Fields(j))
    /\ [][\A j \in FetchTasks : db[j].status = DONE => db'[j].status = DONE]_vars

\* C13: with external storage, a static or dynamic mix that is Done has every
\* expected file stored remotely and attached to the row, no produced file is
\* left in its working directory, and the directory is gone.
C13_RemoteDoneCleansUp ==
    \A j \in Mixes :
        ~is_local /\ db[j].status = DONE
            => /\ db[j].files = Fields(j)
               /\ \A f \in Fields(j) : f \in remote[j] /\ db[j].names[f] = StoredName(j, f)
               /\ fs[j] = {}
               /\ <<SEPARATE_DIR, j>> \notin dirs

\* A dynamic mix is Done with external storage after the separation wrote
\* the four files.
C13_Witness ==
    \E j \in DynamicMixes :
        /\ ~is_local
        /\ db[j].status = DONE
        /\ produced[j] = Parts
        /\ remote[j] = Parts

\* C14: when a separation task ended after a FileNotFoundError (the hint was
\* printed), the row is Error and its message contains the install hint;
\* after any other failure the row carries the raw message of the failure.
C14_HintRecorded ==
    \A j \in Mixes :
        pc[j] = "returned" /\ mem[j].status = ERROR
            => /\ db[j].status = ERROR
               /\ IF InstallHint \in stdout[j]
                  THEN InstallHint \in Lines(db[j].error)
                  ELSE db[j].error = mem[j].error

\* C16: a local file disappears only when it is already in the external
\* storage, and a working directory only when every file produced in it is.
C16_RemoveAfterUpload ==
    [][\A j \in Jobs :
          /\ \A f \in Fields(j) : f \in fs[j] /\ f \notin fs'[j] => f \in remote[j]
          /\ directory(j) \in dirs /\ directory(j) \notin dirs'
                => \A f \in Fields(j) : mem[j].files[f] # UNSET => f \in remote[j]]_vars

\* C17: with external storage, once a fetch task is Done neither the
\* downloaded file nor the directory created for it nor the directory that
\* contained it exists locally.
C17_FetchDirectoryGone ==
    \A j \in FetchTasks :
        ~is_local /\ db[j].status = DONE
            => /\ fs[j] = {}
               /\ directory(j) \notin dirs
               /\ <<UPLOAD_DIR, j>> \notin dirs

\* C18: with local storage no task removes a file or a directory; every file
\* reference of a row is the path of the produced file in the directory named
\* by the key of the job, where the file is; a Done mix has all references.
C18_LocalMetadataOnly ==
    /\ [](is_local =>
            \A j \in Jobs :
                /\ \A f \in db[j].files :
                      /\ db[j].names[f] =
                            <<IF j \in Mixes THEN SEPARATE_DIR ELSE UPLOAD_DIR, j, f>>
                      /\ f \in fs[j]
                      /\ <<IF j \in Mixes THEN SEPARATE_DIR ELSE UPLOAD_DIR, j>> \in dirs
                /\ j \in Mixes /\ db[j].status = DONE => db[j].files = Fields(j))
    /\ [][is_local =>
            /\ \A j \in Jobs : fs[j] \subseteq fs'[j] /\ remote'[j] = {}
            /\ dirs \subseteq dirs']_vars

\* A dynamic mix is Done with local storage; its four files and its
\* directory are there.
C18_Witness ==
    \E j \in DynamicMixes :
        /\ is_local
        /\ db[j].status = DONE
        /\ fs[j] = Parts
        /\ directory(j) \in dirs

\* C15: a separation task never lets a failure out, and when it has ended
\* without a crash the job is durably Done or Error.
C15_MixFailuresCaught ==
    \A j \in Mixes :
        /\ pc[j] # "raised"
        /\ pc[j] = "returned" => db[j].status \in Terminal

FairSpec ==
    /\ Spec
    /\ WF_vars(Tick)
    /\ WF_vars(check_in_progress_tasks)
    /\ WF_vars(create_static_mix)
    /\ WF_vars(create_dynamic_mix)
    /\ WF_vars(fetch_youtube_audio)

====
